---------------------------- MODULE Spec2Model ----------------------------
(***************************************************************************)
(* Model of tsfc/tsfc_to_loopy.py: the lowering of a GEM expression DAG    *)
(* to a loopy kernel (tsfc_to_loopy), with its conversion context, its     *)
(* common-subexpression memo, the reference-counting pre-pass, the         *)
(* write-footprint check and the stride helper cumulative_strides.         *)
(***************************************************************************)
EXTENDS Integers, Sequences, FiniteSets, TLC

VARIABLES
    pc,                     \* position inside tsfc_to_loopy
    ir,                     \* input: sequence of [lhs, rhs] node ids
    arg_in,                 \* input: argument_ordering as passed by the caller
    generate_increments,    \* input flag
    argument_ordering,      \* local: the deduplicated ordering (line 339)
    ctx,                    \* the ConversionContext
    exprs_and_free_inames,  \* local (line 348)
    instructions,           \* local (lines 363, 396)
    pymbolic_lhss,          \* local (line 374)
    lhs_pos,                \* position of the loop of line 378
    domain,                 \* local (lines 410-421): iname -> length
    knl,                    \* the returned kernel
    error,                  \* the exception that ended the call, "" if none
    strides_in,             \* argument of cumulative_strides
    strides_out,            \* its result
    strides_pc

vars == <<pc, ir, arg_in, generate_increments, argument_ordering, ctx,
          exprs_and_free_inames, instructions, pymbolic_lhss, lhs_pos,
          domain, knl, error, strides_in, strides_out, strides_pc>>

-----------------------------------------------------------------------------
(* Bounds of the explored inputs.                                          *)

MaxOrderLen == 3

MaxDims == 3

MaxCap == 5

-----------------------------------------------------------------------------
(* Generic helpers.                                                        *)

Range(s) == {s[k] : k \in 1..Len(s)}

SeqsUpTo(S, n) == UNION {[1..k -> S] : k \in 0..n}

NoneDim == -1

NoName == ""

NoError == ""

EmptyMap == [x \in {} |-> 0]

Put(map, key, value) == [x \in (DOMAIN map) \cup {key} |->
                            IF x = key THEN value ELSE map[x]]

-----------------------------------------------------------------------------
(* The input expression DAG.  GEM nodes and indices are kept in two arenas *)
(* and referred to by their position, which stands for object identity.    *)

BlankIndex == [kind |-> "", name |-> NoName, count |-> 0, extent |-> 0,
               expression |-> 0, value |-> 0]

IdxI == 1
IdxJ == 2
IdxK == 3
IdxVarW == 4
IdxZero == 5
IdxVarM == 6

IndexArena == <<
    [BlankIndex EXCEPT !.kind = "Index", !.name = "i", !.count = 0, !.extent = 2],
    [BlankIndex EXCEPT !.kind = "Index", !.name = "j", !.count = 1, !.extent = 2],
    [BlankIndex EXCEPT !.kind = "Index", !.count = 2, !.extent = 3],
    [BlankIndex EXCEPT !.kind = "VariableIndex", !.expression = 18],
    [BlankIndex EXCEPT !.kind = "int", !.value = 0],
    [BlankIndex EXCEPT !.kind = "VariableIndex", !.expression = 4] >>

BlankNode == [kind |-> "", name |-> "", shape |-> <<>>, array |-> <<>>,
              children |-> <<>>, multiindex |-> <<>>, dim2idxs |-> <<>>,
              operator |-> ""]

Variable(name, shape) == [BlankNode EXCEPT !.kind = "Variable", !.name = name,
                                           !.shape = shape]

Literal(shape, array) == [BlankNode EXCEPT !.kind = "Literal", !.shape = shape,
                                           !.array = array]

Indexed(aggregate, multiindex) ==
    [BlankNode EXCEPT !.kind = "Indexed", !.children = <<aggregate>>,
                      !.multiindex = multiindex]

FlexiblyIndexed(variable, dim2idxs) ==
    [BlankNode EXCEPT !.kind = "FlexiblyIndexed", !.children = <<variable>>,
                      !.dim2idxs = dim2idxs]

Operator(kind, children) == [BlankNode EXCEPT !.kind = kind, !.children = children]

MathFunction(name, children) ==
    [BlankNode EXCEPT !.kind = "MathFunction", !.name = name, !.children = children]

Comparison(op, children) ==
    [BlankNode EXCEPT !.kind = "Comparison", !.operator = op, !.children = children]

IndexSum(summand, multiindex) ==
    [BlankNode EXCEPT !.kind = "IndexSum", !.children = <<summand>>,
                      !.multiindex = multiindex]

Axis(off, idxs) == [off |-> off, idxs |-> idxs]

Term(index, stride) == [index |-> index, stride |-> stride]

NodeArena == <<
    (*  1 *) Variable("A", <<4>>),
    (*  2 *) Variable("B", <<4>>),
    (*  3 *) Variable("n", <<>>),
    (*  4 *) Variable("m", <<>>),
    (*  5 *) Literal(<<>>, <<2>>),
    (*  6 *) Literal(<<2>>, <<1, 2>>),
    (*  7 *) Indexed(1, <<IdxI>>),
    (*  8 *) Indexed(1, <<IdxJ>>),
    (*  9 *) FlexiblyIndexed(1, <<Axis(2, <<Term(IdxI, 1)>>)>>),
    (* 10 *) FlexiblyIndexed(1, <<Axis(0, <<Term(IdxI, 2), Term(IdxJ, 1)>>)>>),
    (* 11 *) Indexed(1, <<IdxZero>>),
    (* 12 *) Indexed(1, <<IdxVarM>>),
    (* 13 *) Indexed(2, <<IdxI>>),
    (* 14 *) Indexed(2, <<IdxK>>),
    (* 15 *) Indexed(6, <<IdxI>>),
    (* 16 *) Operator("Sum", <<13, 5>>),
    (* 17 *) Operator("Product", <<16, 16>>),
    (* 18 *) Operator("Power", <<3, 5>>),
    (* 19 *) Operator("Sum", <<18, 13>>),
    (* 20 *) Operator("Division", <<19, 19>>),
    (* 21 *) Operator("Product", <<14, 15>>),
    (* 22 *) IndexSum(21, <<IdxK>>),
    (* 23 *) FlexiblyIndexed(4, <<>>),
    (* 24 *) MathFunction("atan2", <<23, 31>>),
    (* 25 *) Comparison(">", <<23, 18>>),
    (* 26 *) Indexed(2, <<IdxVarW>>),
    (* 27 *) Operator("MaxValue", <<24, 25>>),
    (* 28 *) Operator("MinValue", <<27, 26>>),
    (* 29 *) Operator("Zero", <<>>),
    (* 30 *) Variable("w", <<NoneDim>>),
    (* 31 *) FlexiblyIndexed(30, <<Axis(0, <<Term(IdxJ, 1)>>)>>),
    (* 32 *) FlexiblyIndexed(1, <<Axis(0, <<Term(IdxVarM, 0), Term(IdxI, 1)>>)>>),
    (* 33 *) Operator("Sum", <<13, 8>>) >>

Nodes == 1..Len(NodeArena)

LhsNodes == {7, 8, 9, 10, 11, 12, 32}

RhsNodes == {5, 6, 16, 17, 20, 22, 28, 29, 33}

ArgIndices == {IdxI, IdxJ}

Pairs == {[lhs |-> l, rhs |-> r] : l \in LhsNodes, r \in RhsNodes}

SecondPairs == {[lhs |-> l, rhs |-> r] : l \in {7, 9}, r \in {5, 16, 20, 28}}

IRInputs == {<<p>> : p \in Pairs} \cup {<<p, q>> : p \in Pairs, q \in SecondPairs}

-----------------------------------------------------------------------------
(* GEM attributes the lowering reads: node.free_indices, ordered tuple.    *)

RECURSIVE FreeIndexSet(_)

IndexFreeSet(idx) ==
    CASE IndexArena[idx].kind = "Index" -> {idx}
      [] IndexArena[idx].kind = "VariableIndex" ->
            FreeIndexSet(IndexArena[idx].expression)
      [] OTHER -> {}

FreeIndexSet(node) ==
    LET nd == NodeArena[node] IN
    CASE nd.kind = "Indexed" ->
            UNION {IndexFreeSet(nd.multiindex[k]) : k \in 1..Len(nd.multiindex)}
      [] nd.kind = "FlexiblyIndexed" ->
            UNION {UNION {IndexFreeSet(nd.dim2idxs[a].idxs[t].index) :
                            t \in 1..Len(nd.dim2idxs[a].idxs)} :
                   a \in 1..Len(nd.dim2idxs)}
      [] nd.kind = "IndexSum" ->
            FreeIndexSet(nd.children[1]) \ Range(nd.multiindex)
      [] OTHER ->
            UNION {FreeIndexSet(nd.children[k]) : k \in 1..Len(nd.children)}

RECURSIVE SortedSeq(_)
SortedSeq(S) ==
    IF S = {} THEN <<>>
    ELSE LET lo == CHOOSE x \in S : \A y \in S : x <= y
         IN <<lo>> \o SortedSeq(S \ {lo})

free_indices(node) == SortedSeq(FreeIndexSet(node))

-----------------------------------------------------------------------------
(* pymbolic expressions, as uniform records.                               *)

PExpr(op, name, val, args) == [op |-> op, name |-> name, val |-> val, args |-> args]

PNone == PExpr("none", "", 0, <<>>)
PVar(name) == PExpr("var", name, 0, <<>>)
PNum(v) == PExpr("num", "", v, <<>>)
PSubscript(aggregate, index_tuple) == PExpr("subscript", "", 0, <<aggregate>> \o index_tuple)
PSum(children) == PExpr("sum", "", 0, children)
PProduct(children) == PExpr("product", "", 0, children)
PQuotient(num, denom) == PExpr("quotient", "", 0, <<num, denom>>)
PPower(base, exponent) == PExpr("power", "", 0, <<base, exponent>>)
PMin(children) == PExpr("min", "", 0, children)
PMax(children) == PExpr("max", "", 0, children)
PComparison(left, op, right) == PExpr("comparison", op, 0, <<left, right>>)
PCall(function, parameters) == PExpr("call", "", 0, <<function>> \o parameters)

Aggregate(e) == e.args[1]
IndexTuple(e) == SubSeq(e.args, 2, Len(e.args))

(* expr * s for an integer s, as pymbolic's operator overloading builds it *)
PMul(e, s) ==
    IF e.op = "num" THEN PNum(e.val * s)
    ELSE IF s = 1 THEN e
    ELSE IF s = 0 THEN PNum(0)
    ELSE IF e.op = "product" THEN PProduct(e.args \o <<PNum(s)>>)
    ELSE PProduct(<<e, PNum(s)>>)

(* a + b, as pymbolic's operator overloading builds it *)
PAdd(a, b) ==
    IF a.op = "num" /\ b.op = "num" THEN PNum(a.val + b.val)
    ELSE IF a.op = "num" THEN (IF a.val # 0 THEN PSum(<<a, b>>) ELSE b)
    ELSE IF b.op = "num" /\ b.val = 0 THEN a
    ELSE IF a.op = "sum" /\ b.op = "sum" THEN PSum(a.args \o b.args)
    ELSE IF a.op = "sum" THEN PSum(a.args \o <<b>>)
    ELSE IF b.op = "sum" THEN PSum(<<a>> \o b.args)
    ELSE PSum(<<a, b>>)

RECURSIVE VarsOf(_)
VarsOf(e) ==
    IF e.op = "var" THEN {e.name}
    ELSE UNION {VarsOf(e.args[k]) : k \in 1..Len(e.args)}

RECURSIVE SubExprs(_)
SubExprs(e) == {e} \cup UNION {SubExprs(e.args[k]) : k \in 1..Len(e.args)}

-----------------------------------------------------------------------------
(* pytools.UniqueNameGenerator: the base name if it is free, else the      *)
(* first free of base_0, base_1, ...                                       *)

UniqueName(names, based_on) ==
    IF based_on \notin names THEN based_on
    ELSE LET free == {k \in 0..Cardinality(names) :
                        (based_on \o "_" \o ToString(k)) \notin names}
             k0 == CHOOSE k \in free : \A l \in free : k <= l
         IN based_on \o "_" \o ToString(k0)

-----------------------------------------------------------------------------
(* ConversionContext.  Every method takes the context and returns          *)
(* [ctx, val]: the context after the call and the value returned.  A       *)
(* raised exception is recorded in ctx.err and ends every later step.      *)

Ret(c, v) == [ctx |-> c, val |-> v]

(* v = <expression>; <the statements after it, which use v> *)
Bind(v, K(_)) == CHOOSE y \in {K(r) : r \in {v}} : TRUE

Raise(c, what) == Ret([c EXCEPT !.err = what], PNone)

ConversionContext(expr_use_count) ==
    [expr_use_count |-> expr_use_count,
     names |-> {},
     index_to_iname_and_length |-> EmptyMap,
     var_to_name_and_shape |-> EmptyMap,
     literal_to_name_and_array |-> EmptyMap,
     node_to_var_name |-> EmptyMap,
     node_to_inames |-> EmptyMap,
     assignments |-> <<>>,
     subst_rules |-> <<>>,
     cse_names |-> {},
     err |-> NoError]

name_gen(c, based_on) ==
    Bind(UniqueName(c.names, based_on),
         LAMBDA n : Ret([c EXCEPT !.names = @ \cup {n}], n))

variable_to_name(c, node) ==
    IF node \in DOMAIN c.var_to_name_and_shape
    THEN IF NodeArena[node].shape = c.var_to_name_and_shape[node].shape
         THEN Ret(c, c.var_to_name_and_shape[node].name)
         ELSE Raise(c, "AssertionError")
    ELSE Bind(name_gen(c, NodeArena[node].name), LAMBDA r :
              Ret([r.ctx EXCEPT !.var_to_name_and_shape =
                      Put(@, node, [name |-> r.val, shape |-> NodeArena[node].shape])],
                  r.val))

literal_to_name(c, literal) ==
    IF literal \in DOMAIN c.literal_to_name_and_array
    THEN IF NodeArena[literal].array = c.literal_to_name_and_array[literal].array
         THEN Ret(c, c.literal_to_name_and_array[literal].name)
         ELSE Raise(c, "AssertionError")
    ELSE Bind(name_gen(c, "cnst"), LAMBDA r :
              Ret([r.ctx EXCEPT !.literal_to_name_and_array =
                      Put(@, literal, [name |-> r.val,
                                       array |-> NodeArena[literal].array])],
                  r.val))

index_to_iname(c, index) ==
    IF index \in DOMAIN c.index_to_iname_and_length
    THEN IF IndexArena[index].extent = c.index_to_iname_and_length[index].length
         THEN Ret(c, c.index_to_iname_and_length[index].iname)
         ELSE Raise(c, "AssertionError")
    ELSE Bind(IF IndexArena[index].name = NoName
              THEN name_gen(c, "i" \o ToString(IndexArena[index].count))
              ELSE name_gen(c, IndexArena[index].name),
              LAMBDA r :
              Ret([r.ctx EXCEPT !.index_to_iname_and_length =
                      Put(@, index, [iname |-> r.val,
                                     length |-> IndexArena[index].extent])],
                  r.val))

(* tuple(ctx.index_to_iname(i) for i in indices) *)
RECURSIVE index_to_iname_all(_, _)
index_to_iname_all(c, indices) ==
    IF indices = <<>> \/ c.err # NoError THEN Ret(c, <<>>)
    ELSE Bind(index_to_iname(c, Head(indices)), LAMBDA r :
         Bind(index_to_iname_all(r.ctx, Tail(indices)), LAMBDA rest :
              Ret(rest.ctx, <<r.val>> \o rest.val)))

(* the unreachable return of lines 83-86 taken instead of lines 74-81 *)
is_cse_eligible_lines_83_86(node) ==
    ~((NodeArena[node].kind = "Literal" /\ NodeArena[node].shape = <<>>)
        \/ ~(NodeArena[node].kind = "FlexiblyIndexed"))

is_cse_eligible(node) ==
    IF ~(NodeArena[node].kind = "Literal" /\ NodeArena[node].shape = <<>>)
    THEN IF NodeArena[node].kind \in {"FlexiblyIndexed", "Indexed"}
         THEN FALSE
         ELSE TRUE
    ELSE FALSE

use_count(expr_use_count, node) ==
    IF node \in DOMAIN expr_use_count THEN expr_use_count[node] ELSE 0

-----------------------------------------------------------------------------
(* Index and expression conversion.                                        *)

RECURSIVE rec_gem(_, _)
RECURSIVE index_to_loopy(_, _)

(* tuple(ctx.rec_gem(c, node) for c in node.children) *)
RECURSIVE rec_gem_all(_, _)
rec_gem_all(c, children) ==
    IF children = <<>> \/ c.err # NoError THEN Ret(c, <<>>)
    ELSE Bind(rec_gem(c, Head(children)), LAMBDA r :
         Bind(rec_gem_all(r.ctx, Tail(children)), LAMBDA rest :
              Ret(rest.ctx, <<r.val>> \o rest.val)))

(* tuple(index_to_loopy(i, ctx) for i in multiindex) *)
RECURSIVE index_to_loopy_all(_, _)
index_to_loopy_all(c, multiindex) ==
    IF multiindex = <<>> \/ c.err # NoError THEN Ret(c, <<>>)
    ELSE Bind(index_to_loopy(c, Head(multiindex)), LAMBDA r :
         Bind(index_to_loopy_all(r.ctx, Tail(multiindex)), LAMBDA rest :
              Ret(rest.ctx, <<r.val>> \o rest.val)))

map_index(c, index) ==
    Bind(index_to_iname(c, index), LAMBDA r : Ret(r.ctx, PVar(r.val)))

map_varindex(c, index) == rec_gem(c, IndexArena[index].expression)

map_int(c, index) == Ret(c, PNum(IndexArena[index].value))

index_to_loopy(c, index) ==
    CASE IndexArena[index].kind = "Index" -> map_index(c, index)
      [] IndexArena[index].kind = "VariableIndex" -> map_varindex(c, index)
      [] IndexArena[index].kind = "int" -> map_int(c, index)
      [] OTHER -> Raise(c, "NotImplementedError")

(* gem.gem has no function literal_to_name: the call of line 165 goes to  *)
(* the module g, not to ctx, so it raises and registers nothing in ctx.    *)
map_literal(c, node) ==
    IF NodeArena[node].shape = <<>>
    THEN Ret(c, PNum(NodeArena[node].array[1]))
    ELSE Raise(c, "AttributeError")

map_variable(c, node) ==
    Bind(variable_to_name(c, node), LAMBDA r : Ret(r.ctx, PVar(r.val)))

convert_multichild(op, c, node) ==
    Bind(rec_gem_all(c, NodeArena[node].children), LAMBDA r :
         Ret(r.ctx, PExpr(op, "", 0, r.val)))

map_division(c, node) ==
    IF Len(NodeArena[node].children) # 2 THEN Raise(c, "ValueError")
    ELSE Bind(rec_gem_all(c, NodeArena[node].children), LAMBDA r :
              Ret(r.ctx, IF r.ctx.err # NoError THEN PNone
                         ELSE PQuotient(r.val[1], r.val[2])))

map_power(c, node) ==
    IF Len(NodeArena[node].children) # 2 THEN Raise(c, "ValueError")
    ELSE Bind(rec_gem_all(c, NodeArena[node].children), LAMBDA r :
              Ret(r.ctx, IF r.ctx.err # NoError THEN PNone
                         ELSE PPower(r.val[1], r.val[2])))

map_function(c, node) ==
    Bind(rec_gem_all(c, NodeArena[node].children), LAMBDA r :
         Ret(r.ctx, PCall(PVar(NodeArena[node].name), r.val)))

map_comparison(c, node) ==
    IF Len(NodeArena[node].children) # 2 THEN Raise(c, "ValueError")
    ELSE Bind(rec_gem_all(c, NodeArena[node].children), LAMBDA r :
              Ret(r.ctx, IF r.ctx.err # NoError THEN PNone
                         ELSE PComparison(r.val[1], NodeArena[node].operator,
                                          r.val[2])))

index_aggregate_to_name(c, child) ==
    IF NodeArena[child].kind = "Variable" THEN variable_to_name(c, child)
    ELSE IF NodeArena[child].kind \in {"Literal", "Zero", "Identity"}
    THEN literal_to_name(c, child)
    ELSE Raise(c, "NotImplementedError")

map_indexed(c, node) ==
    Bind(index_aggregate_to_name(c, NodeArena[node].children[1]), LAMBDA agg :
    Bind(index_to_loopy_all(agg.ctx, NodeArena[node].multiindex), LAMBDA ix :
         Ret(ix.ctx, IF ix.ctx.err # NoError THEN PNone
                     ELSE PSubscript(PVar(agg.val), ix.val))))

(* result = off; for i, s in idxs: result += index_to_loopy(i, ctx)*s *)
RECURSIVE flex_idx_terms(_, _, _)
flex_idx_terms(c, result, idxs) ==
    IF idxs = <<>> \/ c.err # NoError THEN Ret(c, result)
    ELSE Bind(index_to_loopy(c, Head(idxs).index), LAMBDA r :
         IF r.ctx.err # NoError THEN Ret(r.ctx, PNone)
         ELSE Bind(PAdd(result, PMul(r.val, Head(idxs).stride)), LAMBDA result1 :
                   flex_idx_terms(r.ctx, result1, Tail(idxs))))

flex_idx_to_loopy(c, f) == flex_idx_terms(c, PNum(f.off), f.idxs)

RECURSIVE flex_idx_to_loopy_all(_, _)
flex_idx_to_loopy_all(c, dim2idxs) ==
    IF dim2idxs = <<>> \/ c.err # NoError THEN Ret(c, <<>>)
    ELSE Bind(flex_idx_to_loopy(c, Head(dim2idxs)), LAMBDA r :
         Bind(flex_idx_to_loopy_all(r.ctx, Tail(dim2idxs)), LAMBDA rest :
              Ret(rest.ctx, <<r.val>> \o rest.val)))

map_flexibly_indexed(c, node) ==
    Bind(index_aggregate_to_name(c, NodeArena[node].children[1]), LAMBDA agg :
         IF NodeArena[NodeArena[node].children[1]].shape = <<NoneDim>>
         THEN Ret(agg.ctx, IF agg.ctx.err # NoError THEN PNone ELSE PVar(agg.val))
         ELSE Bind(flex_idx_to_loopy_all(agg.ctx, NodeArena[node].dim2idxs),
                   LAMBDA ix :
                   Ret(ix.ctx, IF ix.ctx.err # NoError THEN PNone
                               ELSE PSubscript(PVar(agg.val), ix.val))))

SubstitutionRule(name, arg_names, inames, expr) ==
    [name |-> name, arguments |-> arg_names, inames |-> inames, expression |-> expr]

PVars(names) == [k \in 1..Len(names) |-> PVar(names[k])]

map_index_sum(c, node) ==
    Bind(rec_gem(c, NodeArena[node].children[1]), LAMBDA subexpr :
    Bind(name_gen(subexpr.ctx, "sum_tmp"), LAMBDA name :
    Bind(index_to_iname_all(name.ctx, free_indices(node)), LAMBDA arg_names :
    Bind(index_to_iname_all(arg_names.ctx, NodeArena[node].multiindex), LAMBDA red :
         IF subexpr.ctx.err # NoError THEN Ret(subexpr.ctx, PNone)
         ELSE IF red.ctx.err # NoError THEN Ret(red.ctx, PNone)
         ELSE Ret([red.ctx EXCEPT !.subst_rules =
                      Append(@, SubstitutionRule(name.val, arg_names.val, red.val,
                                                 subexpr.val))],
                  PCall(PVar(name.val), PVars(arg_names.val)))))))

expr_to_loopy(c, node) ==
    LET kind == NodeArena[node].kind IN
    CASE kind = "Identity" -> Raise(c, "NotImplementedError")
      [] kind = "Literal" -> map_literal(c, node)
      [] kind = "Zero" -> Raise(c, "NotImplementedError")
      [] kind = "Variable" -> map_variable(c, node)
      [] kind = "Sum" -> convert_multichild("sum", c, node)
      [] kind = "Product" -> convert_multichild("product", c, node)
      [] kind = "Division" -> map_division(c, node)
      [] kind = "Power" -> map_power(c, node)
      [] kind = "MathFunction" -> map_function(c, node)
      [] kind = "MinValue" -> convert_multichild("min", c, node)
      [] kind = "MaxValue" -> convert_multichild("max", c, node)
      [] kind = "Comparison" -> map_comparison(c, node)
      [] kind = "Indexed" -> map_indexed(c, node)
      [] kind = "FlexiblyIndexed" -> map_flexibly_indexed(c, node)
      [] kind = "IndexSum" -> map_index_sum(c, node)
      [] OTHER -> Raise(c, "NotImplementedError")

CseAssignment(var_name, free_inames, result) ==
    [var_name |-> var_name, free_inames |-> free_inames, rhs |-> result]

(* line 99 left out: the temporary is never memoized *)
cse_first_visit_no_memo(c, node) ==
    Bind(expr_to_loopy(c, node), LAMBDA result :
    Bind(name_gen(result.ctx, "cse"), LAMBDA var_name :
    Bind(index_to_iname_all(var_name.ctx, free_indices(node)), LAMBDA free_inames :
         IF result.ctx.err # NoError THEN Ret(result.ctx, "")
         ELSE IF free_inames.ctx.err # NoError THEN Ret(free_inames.ctx, "")
         ELSE Ret([free_inames.ctx EXCEPT
                      !.cse_names = @ \cup {var_name.val},
                      !.node_to_inames = Put(@, node, free_indices(node)),
                      !.assignments = Append(@, CseAssignment(var_name.val,
                                                              free_inames.val,
                                                              result.val))],
                  var_name.val))))

(* line 104 with insert(0, ...) for append: the binding goes to the front *)
cse_first_visit_prepend(c, node) ==
    Bind(expr_to_loopy(c, node), LAMBDA result :
    Bind(name_gen(result.ctx, "cse"), LAMBDA var_name :
    Bind(index_to_iname_all(var_name.ctx, free_indices(node)), LAMBDA free_inames :
         IF result.ctx.err # NoError THEN Ret(result.ctx, "")
         ELSE IF free_inames.ctx.err # NoError THEN Ret(free_inames.ctx, "")
         ELSE Ret([free_inames.ctx EXCEPT
                      !.cse_names = @ \cup {var_name.val},
                      !.node_to_var_name = Put(@, node, var_name.val),
                      !.node_to_inames = Put(@, node, free_indices(node)),
                      !.assignments = <<CseAssignment(var_name.val, free_inames.val,
                                                      result.val)>> \o @],
                  var_name.val))))

(* rec_gem, lines 96-104: the first visit of a shared node *)
cse_first_visit(c, node) ==
    Bind(expr_to_loopy(c, node), LAMBDA result :
    Bind(name_gen(result.ctx, "cse"), LAMBDA var_name :
    Bind(index_to_iname_all(var_name.ctx, free_indices(node)), LAMBDA free_inames :
         IF result.ctx.err # NoError THEN Ret(result.ctx, "")
         ELSE IF free_inames.ctx.err # NoError THEN Ret(free_inames.ctx, "")
         ELSE Ret([free_inames.ctx EXCEPT
                      !.cse_names = @ \cup {var_name.val},
                      !.node_to_var_name = Put(@, node, var_name.val),
                      !.node_to_inames = Put(@, node, free_indices(node)),
                      !.assignments = Append(@, CseAssignment(var_name.val,
                                                              free_inames.val,
                                                              result.val))],
                  var_name.val))))

rec_gem(c, node) ==
    IF c.err # NoError THEN Ret(c, PNone)
    ELSE IF use_count(c.expr_use_count, node) > 1 /\ is_cse_eligible(node)
    THEN Bind(IF node \in DOMAIN c.node_to_var_name
                 /\ node \in DOMAIN c.node_to_inames
              THEN Ret(c, c.node_to_var_name[node])
              ELSE cse_first_visit(c, node),
              LAMBDA b :
              IF b.ctx.err # NoError THEN Ret(b.ctx, PNone)
              ELSE IF Len(b.ctx.node_to_inames[node]) = 0
              THEN Ret(b.ctx, PVar(b.val))
              ELSE Bind(index_to_loopy_all(b.ctx, b.ctx.node_to_inames[node]),
                        LAMBDA ix : Ret(ix.ctx, PSubscript(PVar(b.val), ix.val))))
    ELSE expr_to_loopy(c, node)

-----------------------------------------------------------------------------
(* Utilities.                                                              *)

RECURSIVE count_subexpression_uses(_, _)
RECURSIVE count_children(_, _)

count_children(children, expr_use_count) ==
    IF children = <<>> THEN expr_use_count
    ELSE count_children(Tail(children),
                        count_subexpression_uses(Head(children), expr_use_count))

(* a pre-pass that descends into a node on its first visit only *)
count_subexpression_uses_once(node, expr_use_count) ==
    IF node \in DOMAIN expr_use_count
    THEN Put(expr_use_count, node, expr_use_count[node] + 1)
    ELSE count_children(NodeArena[node].children, Put(expr_use_count, node, 1))

count_subexpression_uses(node, expr_use_count) ==
    Bind(Put(expr_use_count, node, use_count(expr_use_count, node) + 1),
         LAMBDA counted : count_children(NodeArena[node].children, counted))

(* np.flipud, np.cumprod on one-dimensional arrays *)
RECURSIVE flipud(_)
flipud(a) == IF a = <<>> THEN <<>> ELSE flipud(Tail(a)) \o <<Head(a)>>

RECURSIVE cumprod(_)
cumprod(a) ==
    IF a = <<>> THEN <<>>
    ELSE LET before == cumprod(SubSeq(a, 1, Len(a) - 1))
         IN Append(before, IF before = <<>> THEN a[Len(a)]
                           ELSE before[Len(before)] * a[Len(a)])

(* line 248 without the [1:] slice *)
cumulative_strides_whole(strides) ==
    LET temp == flipud(cumprod(flipud(strides)))
    IN temp \o <<1>>

cumulative_strides(strides) ==
    LET temp == flipud(cumprod(flipud(SubSeq(strides, 2, Len(strides)))))
    IN temp \o <<1>>

-----------------------------------------------------------------------------
(* tsfc_to_loopy, step by step.                                            *)

inputs == <<ir, arg_in, generate_increments>>

strides_vars == <<strides_in, strides_out, strides_pc>>

(* lines 334-339 *)
RECURSIVE dedup_loop(_, _)
dedup_loop(rest, new_argument_ordering) ==
    IF rest = <<>> THEN new_argument_ordering
    ELSE dedup_loop(Tail(rest),
                    IF Head(rest) \notin Range(new_argument_ordering)
                    THEN Append(new_argument_ordering, Head(rest))
                    ELSE new_argument_ordering)

(* a deduplication that keeps the last occurrence of an index *)
dedup_argument_ordering_keep_last(ordering) ==
    flipud(dedup_loop(flipud(ordering), <<>>))

dedup_argument_ordering(ordering) == dedup_loop(ordering, <<>>)

(* lines 342-344 *)
RECURSIVE count_all(_, _)
count_all(pairs, expr_use_count) ==
    IF pairs = <<>> THEN expr_use_count
    ELSE count_all(Tail(pairs),
                   count_subexpression_uses(Head(pairs).rhs, expr_use_count))

(* lines 350-352 *)
exposed_indices(ordering, node) ==
    SelectSeq(ordering, LAMBDA i : i \in Range(free_indices(node)))

(* lines 348-353 *)
RECURSIVE lower_rhs_all(_, _, _)
lower_rhs_all(c, pairs, ordering) ==
    IF pairs = <<>> \/ c.err # NoError THEN Ret(c, <<>>)
    ELSE Bind(rec_gem(c, Head(pairs).rhs), LAMBDA e :
         Bind(index_to_iname_all(e.ctx, exposed_indices(ordering, Head(pairs).rhs)),
              LAMBDA fi :
         Bind(lower_rhs_all(fi.ctx, Tail(pairs), ordering), LAMBDA rest :
              Ret(rest.ctx,
                  <<[lhs |-> Head(pairs).lhs, rhs |-> e.val,
                     free_indices |-> fi.val]>> \o rest.val))))

Assignment(assignee, expression, forced_iname_deps, tags) ==
    [assignee |-> assignee, expression |-> expression,
     forced_iname_deps |-> forced_iname_deps, tags |-> tags]

(* lines 355-360 *)
subscr(name, indices) ==
    IF indices # <<>> THEN PSubscript(PVar(name), PVars(indices)) ELSE PVar(name)

(* lines 363-370 *)
cse_instructions(assignments) ==
    [k \in 1..Len(assignments) |->
        Assignment(subscr(assignments[k].var_name, assignments[k].free_inames),
                   assignments[k].rhs,
                   Range(assignments[k].free_inames),
                   {"cse"})]

(* pymbolic DependencyMapper(composite_leaves=False) on one expression:   *)
(* the variables, and each call as a whole                                *)
RECURSIVE DependencyMapper(_)
DependencyMapper(e) ==
    IF e.op \in {"var", "call"} THEN {e}
    ELSE UNION {DependencyMapper(e.args[k]) : k \in 1..Len(e.args)}

index_tuple_deps(index_tuple) ==
    UNION {DependencyMapper(index_tuple[k]) : k \in 1..Len(index_tuple)}

Perms(S) == {s \in [1..Cardinality(S) -> S] : Range(s) = S}

(* lines 386-400, for the dependencies in the order the list has them *)
RECURSIVE lhs_instructions(_, _, _, _, _)
lhs_instructions(c, iname_deps, lhs_expr, item, increments) ==
    IF iname_deps = <<>> THEN Ret(c, <<>>)
    ELSE Bind(name_gen(c, Aggregate(lhs_expr).name), LAMBDA nm :
         Bind(lhs_instructions(nm.ctx, Tail(iname_deps), lhs_expr, item, increments),
              LAMBDA rest :
              LET lhs_expr_single == PSubscript(PVar(nm.val), <<Head(iname_deps)>>)
                  assignment_rhs == IF increments THEN PAdd(lhs_expr, item.rhs)
                                    ELSE item.rhs
              IN Ret(rest.ctx,
                     <<Assignment(lhs_expr_single, assignment_rhs,
                                  Range(item.free_indices), {})>> \o rest.val)))

(* loopy.symbolic.get_access_range: the index tuples the subscript takes  *)
(* over the domain; it can be determined for affine subscripts in the     *)
(* domain's inames only                                                   *)
RECURSIVE IsAffine(_, _)
IsAffine(e, dom) ==
    CASE e.op = "num" -> TRUE
      [] e.op = "var" -> e.name \in DOMAIN dom
      [] e.op \in {"sum", "product"} ->
            \A k \in 1..Len(e.args) : IsAffine(e.args[k], dom)
      [] OTHER -> FALSE

RECURSIVE Eval(_, _)
RECURSIVE EvalSum(_, _)
RECURSIVE EvalProduct(_, _)
EvalSum(args, env) ==
    IF args = <<>> THEN 0 ELSE Eval(Head(args), env) + EvalSum(Tail(args), env)
EvalProduct(args, env) ==
    IF args = <<>> THEN 1 ELSE Eval(Head(args), env) * EvalProduct(Tail(args), env)
Eval(e, env) ==
    CASE e.op = "num" -> e.val
      [] e.op = "var" -> env[e.name]
      [] e.op = "sum" -> EvalSum(e.args, env)
      [] e.op = "product" -> EvalProduct(e.args, env)

MaxLength(dom) ==
    IF DOMAIN dom = {} THEN 0
    ELSE CHOOSE m \in {dom[n] : n \in DOMAIN dom} : \A n \in DOMAIN dom : dom[n] <= m

DomainPoints(dom) ==
    {env \in [DOMAIN dom -> 0..(MaxLength(dom) - 1)] :
        \A n \in DOMAIN dom : env[n] < dom[n]}

get_access_range(dom, index_tuple) ==
    {[k \in 1..Len(index_tuple) |-> Eval(index_tuple[k], env)] :
        env \in DomainPoints(dom)}

(* lines 431-437; write_ranges is created empty and nothing is ever       *)
(* appended to it                                                         *)
RECURSIVE check_write_ranges(_, _, _)
check_write_ranges(lhss, dom, write_ranges) ==
    IF lhss = <<>> THEN NoError
    ELSE IF \E k \in 1..Len(IndexTuple(Head(lhss))) :
                ~IsAffine(IndexTuple(Head(lhss))[k], dom)
    THEN "UnableToDetermineAccessRange"
    ELSE LET write_range == get_access_range(dom, IndexTuple(Head(lhss)))
         IN IF \E k \in 1..Len(write_ranges) : (write_range \cap write_ranges[k]) # {}
            THEN "ValueError: assignment write ranges are not disjoint"
            ELSE check_write_ranges(Tail(lhss), dom, write_ranges)

(* lines 406-421 *)
build_domain(index_to_iname_and_length) ==
    [n \in {index_to_iname_and_length[i].iname : i \in DOMAIN index_to_iname_and_length} |->
        LET i == CHOOSE i \in DOMAIN index_to_iname_and_length :
                    index_to_iname_and_length[i].iname = n
        IN index_to_iname_and_length[i].length]

(* lines 441-457 *)
make_kernel(dom, insns, c) ==
    [domain |-> dom,
     instructions |-> insns,
     substitutions |-> c.subst_rules,
     global_temps |-> {[name |-> c.literal_to_name_and_array[l].name,
                        initializer |-> c.literal_to_name_and_array[l].array,
                        read_only |-> TRUE] :
                       l \in DOMAIN c.literal_to_name_and_array},
     cse_temps |-> c.cse_names]

NoKernel == [domain |-> EmptyMap, instructions |-> <<>>, substitutions |-> <<>>,
             global_temps |-> {}, cse_temps |-> {}]

Init ==
    /\ pc = "start"
    /\ ir \in IRInputs
    /\ arg_in \in SeqsUpTo(ArgIndices, MaxOrderLen)
    /\ generate_increments \in BOOLEAN
    /\ argument_ordering = <<>>
    /\ ctx = ConversionContext(EmptyMap)
    /\ exprs_and_free_inames = <<>>
    /\ instructions = <<>>
    /\ pymbolic_lhss = <<>>
    /\ lhs_pos = 0
    /\ domain = EmptyMap
    /\ knl = NoKernel
    /\ error = NoError
    /\ strides_in = <<>>
    /\ strides_out = <<>>
    /\ strides_pc = "idle"

DedupArgumentOrdering ==
    /\ pc = "start"
    /\ argument_ordering' = dedup_argument_ordering(arg_in)
    /\ pc' = "count"
    /\ UNCHANGED <<inputs, ctx, exprs_and_free_inames, instructions, pymbolic_lhss,
                   lhs_pos, domain, knl, error, strides_vars>>

CountUses ==
    /\ pc = "count"
    /\ ctx' = ConversionContext(count_all(ir, EmptyMap))
    /\ pc' = "lower_rhs"
    /\ UNCHANGED <<inputs, argument_ordering, exprs_and_free_inames, instructions,
                   pymbolic_lhss, lhs_pos, domain, knl, error, strides_vars>>

LowerRhs ==
    /\ pc = "lower_rhs"
    /\ \E r \in {lower_rhs_all(ctx, ir, argument_ordering)} :
          /\ ctx' = r.ctx
          /\ error' = r.ctx.err
          /\ IF r.ctx.err # NoError
             THEN pc' = "failed" /\ UNCHANGED exprs_and_free_inames
             ELSE pc' = "cse_insns" /\ exprs_and_free_inames' = r.val
    /\ UNCHANGED <<inputs, argument_ordering, instructions, pymbolic_lhss, lhs_pos,
                   domain, knl, strides_vars>>

CseInstructions ==
    /\ pc = "cse_insns"
    /\ instructions' = cse_instructions(ctx.assignments)
    /\ lhs_pos' = 1
    /\ pc' = "lower_lhs"
    /\ UNCHANGED <<inputs, argument_ordering, ctx, exprs_and_free_inames,
                   pymbolic_lhss, domain, knl, error, strides_vars>>

LowerLhs ==
    /\ pc = "lower_lhs"
    /\ \E l \in {rec_gem(ctx, exprs_and_free_inames[lhs_pos].lhs)} :
       LET item == exprs_and_free_inames[lhs_pos]
           deps == index_tuple_deps(IndexTuple(l.val))
       IN IF l.ctx.err # NoError
          THEN /\ ctx' = l.ctx
               /\ error' = l.ctx.err
               /\ pc' = "failed"
               /\ UNCHANGED <<instructions, pymbolic_lhss, lhs_pos>>
          ELSE IF l.val.op # "subscript" \/ \E d \in deps : d.op # "var"
          THEN /\ ctx' = l.ctx
               /\ error' = "AssertionError"
               /\ pc' = "failed"
               /\ pymbolic_lhss' = Append(pymbolic_lhss, l.val)
               /\ UNCHANGED <<instructions, lhs_pos>>
          ELSE \E iname_deps \in Perms(deps) :
                 \E r \in {lhs_instructions(l.ctx, iname_deps, l.val, item,
                                            generate_increments)} :
                    /\ ctx' = r.ctx
                    /\ instructions' = instructions \o r.val
                    /\ pymbolic_lhss' = Append(pymbolic_lhss, l.val)
                    /\ lhs_pos' = lhs_pos + 1
                    /\ pc' = IF lhs_pos = Len(exprs_and_free_inames)
                             THEN "domain" ELSE "lower_lhs"
                    /\ UNCHANGED error
    /\ UNCHANGED <<inputs, argument_ordering, exprs_and_free_inames, domain, knl,
                   strides_vars>>

BuildDomain ==
    /\ pc = "domain"
    /\ IF DOMAIN ctx.index_to_iname_and_length = {}
       THEN pc' = "failed" /\ error' = "AttributeError" /\ UNCHANGED domain
       ELSE /\ domain' = build_domain(ctx.index_to_iname_and_length)
            /\ pc' = "check"
            /\ UNCHANGED error
    /\ UNCHANGED <<inputs, argument_ordering, ctx, exprs_and_free_inames,
                   instructions, pymbolic_lhss, lhs_pos, knl, strides_vars>>

CheckWriteFootprints ==
    /\ pc = "check"
    /\ LET e == check_write_ranges(pymbolic_lhss, domain, <<>>)
       IN /\ error' = e
          /\ pc' = IF e # NoError THEN "failed" ELSE "make_kernel"
    /\ UNCHANGED <<inputs, argument_ordering, ctx, exprs_and_free_inames,
                   instructions, pymbolic_lhss, lhs_pos, domain, knl, strides_vars>>

MakeKernel ==
    /\ pc = "make_kernel"
    /\ knl' = make_kernel(domain, instructions, ctx)
    /\ pc' = "done"
    /\ UNCHANGED <<inputs, argument_ordering, ctx, exprs_and_free_inames,
                   instructions, pymbolic_lhss, lhs_pos, domain, error, strides_vars>>

Next ==
    \/ DedupArgumentOrdering
    \/ CountUses
    \/ LowerRhs
    \/ CseInstructions
    \/ LowerLhs
    \/ BuildDomain
    \/ CheckWriteFootprints
    \/ MakeKernel

Spec == Init /\ [][Next]_vars

-----------------------------------------------------------------------------
(* cumulative_strides on its own.                                          *)

StridesInputs == SeqsUpTo(1..MaxCap, MaxDims)

InitStrides ==
    /\ pc = "idle"
    /\ ir = <<>>
    /\ arg_in = <<>>
    /\ generate_increments = FALSE
    /\ argument_ordering = <<>>
    /\ ctx = ConversionContext(EmptyMap)
    /\ exprs_and_free_inames = <<>>
    /\ instructions = <<>>
    /\ pymbolic_lhss = <<>>
    /\ lhs_pos = 0
    /\ domain = EmptyMap
    /\ knl = NoKernel
    /\ error = NoError
    /\ strides_in \in StridesInputs
    /\ strides_out = <<>>
    /\ strides_pc = "call"

CumulativeStrides ==
    /\ strides_pc = "call"
    /\ strides_out' = cumulative_strides(strides_in)
    /\ strides_pc' = "returned"
    /\ UNCHANGED <<pc, inputs, argument_ordering, ctx, exprs_and_free_inames,
                   instructions, pymbolic_lhss, lhs_pos, domain, knl, error,
                   strides_in>>

NextStrides == CumulativeStrides

SpecStrides == InitStrides /\ [][NextStrides]_vars

-----------------------------------------------------------------------------
(* Vocabulary of the properties.                                           *)

Lowered == pc \in {"cse_insns", "lower_lhs", "domain", "check", "make_kernel", "done"}

(* the pre-pass of lines 342-344 has just run; expr_use_count is not     *)
(* written again afterwards                                               *)
Counted == pc = "lower_rhs"

IsCseInsn(t) == "cse" \in t.tags

TargetName(t) == IF t.assignee.op = "subscript" THEN Aggregate(t.assignee).name
                 ELSE t.assignee.name

TargetSubscript(t) == IF t.assignee.op = "subscript" THEN IndexTuple(t.assignee)
                      ELSE <<>>

ReadNames(t) ==
    VarsOf(t.expression)
        \cup UNION {VarsOf(TargetSubscript(t)[k]) : k \in 1..Len(TargetSubscript(t))}

IsScalarLiteral(n) == NodeArena[n].kind = "Literal" /\ Len(NodeArena[n].shape) = 0

IsArrayLiteral(n) == NodeArena[n].kind = "Literal" /\ Len(NodeArena[n].shape) >= 1

NeverHoisted(n) ==
    IsScalarLiteral(n) \/ NodeArena[n].kind \in {"Indexed", "FlexiblyIndexed"}

(* the instructions of the kernel that came from the k-th pair of the IR *)
NumCseInsns == Cardinality({q \in 1..Len(knl.instructions) : IsCseInsn(knl.instructions[q])})

RECURSIVE DepsBefore(_)
DepsBefore(k) ==
    IF k <= 1 THEN 0
    ELSE DepsBefore(k - 1)
            + Cardinality(index_tuple_deps(IndexTuple(pymbolic_lhss[k - 1])))

InsnsOfPair(k) ==
    {NumCseInsns + DepsBefore(k) + d :
        d \in 1..Cardinality(index_tuple_deps(IndexTuple(pymbolic_lhss[k])))}

Iname(index) == ctx.index_to_iname_and_length[index].iname

TopOcc(n) == Cardinality({k \in 1..Len(ir) : ir[k].rhs = n})

Mult(parent, n) ==
    Cardinality({k \in 1..Len(NodeArena[parent].children) :
                    NodeArena[parent].children[k] = n})

MultTable == [parent \in Nodes |-> [n \in Nodes |-> Mult(parent, n)]]

ParentsTable == [n \in Nodes |-> {parent \in Nodes : MultTable[parent][n] > 0}]

Parents(n) == ParentsTable[n]

(* number of child-edge paths from the top-level right-hand sides to n *)
RECURSIVE PathCount(_)
RECURSIVE PathsThrough(_, _)
PathsThrough(n, ps) ==
    IF ps = {} THEN 0
    ELSE LET parent == CHOOSE x \in ps : TRUE
         IN MultTable[parent][n] * PathCount(parent) + PathsThrough(n, ps \ {parent})
PathCount(n) == TopOcc(n) + PathsThrough(n, Parents(n))

(* number of parent edges of n inside the DAG under the right-hand sides *)
RECURSIVE EdgesFrom(_, _)
EdgesFrom(n, ps) ==
    IF ps = {} THEN 0
    ELSE LET parent == CHOOSE x \in ps : TRUE
         IN MultTable[parent][n] + EdgesFrom(n, ps \ {parent})
ParentEdges(n) == TopOcc(n) + EdgesFrom(n, {q \in Parents(n) : PathCount(q) > 0})

(* the nodes that reach rec_gem while the node n is lowered: the aggregate *)
(* of an Indexed or FlexiblyIndexed is resolved by name, not lowered       *)
RECURSIVE VisitedFrom(_)
IndexVisits(idx) ==
    IF IndexArena[idx].kind = "VariableIndex"
    THEN VisitedFrom(IndexArena[idx].expression) ELSE {}
VisitedFrom(n) ==
    LET nd == NodeArena[n] IN
    {n} \cup
    CASE nd.kind = "Indexed" ->
            UNION {IndexVisits(nd.multiindex[k]) : k \in 1..Len(nd.multiindex)}
      [] nd.kind = "FlexiblyIndexed" ->
            IF NodeArena[nd.children[1]].shape = <<NoneDim>> THEN {}
            ELSE UNION {UNION {IndexVisits(nd.dim2idxs[a].idxs[t].index) :
                                t \in 1..Len(nd.dim2idxs[a].idxs)} :
                        a \in 1..Len(nd.dim2idxs)}
      [] OTHER -> UNION {VisitedFrom(nd.children[k]) : k \in 1..Len(nd.children)}

VisitedByRhs == UNION {VisitedFrom(ir[k].rhs) : k \in 1..Len(ir)}

BindingInsns(n) ==
    {q \in 1..Len(knl.instructions) :
        /\ IsCseInsn(knl.instructions[q])
        /\ n \in DOMAIN ctx.node_to_var_name
        /\ TargetName(knl.instructions[q]) = ctx.node_to_var_name[n]}

KernelExprs ==
    {knl.instructions[q].expression : q \in 1..Len(knl.instructions)}
        \cup {knl.instructions[q].assignee : q \in 1..Len(knl.instructions)}
        \cup {knl.substitutions[q].expression : q \in 1..Len(knl.substitutions)}

-----------------------------------------------------------------------------
(* Properties.                                                             *)

(* C1: whenever two distinct top-level assignments write a common index    *)
(* tuple for some point of the iteration domain, lowering fails with the   *)
(* write-conflict error and returns no kernel.                             *)
C1_OverlappingWritesAreRejected ==
    pc = "done" =>
        \A a, b \in 1..Len(pymbolic_lhss) :
            a # b =>
                get_access_range(domain, IndexTuple(pymbolic_lhss[a]))
                    \cap get_access_range(domain, IndexTuple(pymbolic_lhss[b])) = {}

HoistedOnce(n) ==
    /\ Cardinality(BindingInsns(n)) = 1
    /\ LET q == CHOOSE x \in BindingInsns(n) : TRUE
           body == knl.instructions[q].expression
       IN /\ \A r \in 1..Len(knl.instructions) :
                r # q => body \notin SubExprs(knl.instructions[r].expression)
          /\ \A r \in 1..Len(knl.instructions) :
                body \notin SubExprs(knl.instructions[r].assignee)
          /\ \A r \in 1..Len(knl.substitutions) :
                body \notin SubExprs(knl.substitutions[r].expression)

C3_IneligibleNodesAreNeverHoisted ==
    /\ \A n \in DOMAIN ctx.node_to_var_name : ~NeverHoisted(n)
    /\ \A k \in 1..Len(ctx.assignments) :
        \E n \in DOMAIN ctx.node_to_var_name :
            /\ ctx.node_to_var_name[n] = ctx.assignments[k].var_name
            /\ ~NeverHoisted(n)

C3_Witness ==
    /\ pc = "done"
    /\ Len(ctx.assignments) > 0
    /\ \E n \in Nodes : IsScalarLiteral(n) /\ use_count(ctx.expr_use_count, n) > 1
    /\ \E n \in Nodes : NodeArena[n].kind = "Indexed"
                        /\ use_count(ctx.expr_use_count, n) > 1
    /\ \E n \in Nodes : NodeArena[n].kind = "FlexiblyIndexed"
                        /\ use_count(ctx.expr_use_count, n) > 1

(* C4: every instruction emitted for a top-level pair writes the array     *)
(* named by the lowered left-hand side and has the form target = rhs       *)
(* (overwrite) or target = target + rhs (accumulate), the target on the    *)
(* right being the element the instruction itself writes.                  *)
C4_TopLevelInstructionWritesItsTarget ==
    pc = "done" =>
        \A k \in 1..Len(pymbolic_lhss) : \A q \in InsnsOfPair(k) :
            LET t == knl.instructions[q] IN
            /\ TargetName(t) = Aggregate(pymbolic_lhss[k]).name
            /\ t.expression = IF generate_increments
                              THEN PAdd(t.assignee, exprs_and_free_inames[k].rhs)
                              ELSE exprs_and_free_inames[k].rhs

(* C5: every instruction of the kernel records as its governing            *)
(* loop-variable set exactly the loop variables occurring in its target    *)
(* subscript or in its source expression.                                  *)
C5_InameDepsAreExact ==
    pc = "done" =>
        \A q \in 1..Len(knl.instructions) :
            knl.instructions[q].forced_iname_deps
                = ReadNames(knl.instructions[q]) \cap DOMAIN knl.domain

(* C6: every rank >= 1 Literal reached by lowering, as a direct operand    *)
(* or as the aggregate of an Indexed/FlexiblyIndexed, is lowered to the    *)
(* name the context's literal table records for it, and the kernel         *)
(* declares exactly one read-only global buffer for each such literal.     *)
C6_ArrayLiteralsGoThroughTheLiteralTable ==
    /\ (pc \notin {"idle", "start", "count", "lower_rhs"} /\ IsArrayLiteral(ir[1].rhs)) =>
        /\ error = NoError
        /\ ir[1].rhs \in DOMAIN ctx.literal_to_name_and_array
        /\ exprs_and_free_inames[1].rhs
                = PVar(ctx.literal_to_name_and_array[ir[1].rhs].name)
    /\ pc = "done" =>
        \A l \in DOMAIN ctx.literal_to_name_and_array :
            Cardinality({g \in knl.global_temps :
                g.name = ctx.literal_to_name_and_array[l].name /\ g.read_only}) = 1

RECURSIVE ProductOf(_, _, _)
ProductOf(caps, from, to) ==
    IF from > to THEN 1 ELSE caps[from] * ProductOf(caps, from + 1, to)

(* C7: for n >= 1 capacities c0..c(n-1), cumulative_strides returns an     *)
(* n-tuple whose entry i is the product of the capacities to its right,    *)
(* the last being 1; [2,3,4] gives (12,4,1) and [5] gives (1,).            *)
C7_CumulativeStrides ==
    (strides_pc = "returned" /\ Len(strides_in) >= 1) =>
        /\ Len(strides_out) = Len(strides_in)
        /\ \A i \in 1..Len(strides_in) :
            strides_out[i] = ProductOf(strides_in, i + 1, Len(strides_in))
        /\ strides_out[Len(strides_out)] = 1
        /\ strides_in = <<2, 3, 4>> => strides_out = <<12, 4, 1>>
        /\ strides_in = <<5>> => strides_out = <<1>>

C7_Witness ==
    strides_pc = "returned" /\ strides_in = <<2, 3, 4>> /\ strides_out = <<12, 4, 1>>

KeptPositions(s) == {k \in 1..Len(s) : \A j \in 1..(k - 1) : s[j] # s[k]}

FirstOccurrences(s) ==
    [m \in 1..Cardinality(KeptPositions(s)) |->
        s[CHOOSE k \in KeptPositions(s) :
            Cardinality({j \in KeptPositions(s) : j <= k}) = m]]

ExposedWith(ordering, node) ==
    LET kept == exposed_indices(ordering, node)
    IN [m \in 1..Len(kept) |-> Iname(kept[m])]

(* C8: the argument ordering is used with every index kept at its first   *)
(* occurrence, later duplicates dropped and order preserved: the free      *)
(* indices exposed on every top-level instruction are those that the       *)
(* deduplicated ordering exposes, and deduplication is idempotent.         *)
C8_ArgumentOrderingIsDeduplicated ==
    /\ pc \notin {"idle", "start"} =>
        /\ argument_ordering = FirstOccurrences(arg_in)
        /\ dedup_argument_ordering(argument_ordering) = argument_ordering
    /\ Lowered =>
        \A k \in 1..Len(ir) :
            exprs_and_free_inames[k].free_indices
                = ExposedWith(FirstOccurrences(arg_in), ir[k].rhs)
    /\ pc = "done" =>
        \A k \in 1..Len(ir) : \A q \in InsnsOfPair(k) :
            knl.instructions[q].forced_iname_deps
                = Range(ExposedWith(FirstOccurrences(arg_in), ir[k].rhs))

C8_Witness ==
    /\ pc = "done"
    /\ arg_in = <<IdxJ, IdxI, IdxJ>>
    /\ argument_ordering = <<IdxJ, IdxI>>
    /\ {IdxI, IdxJ} \subseteq DOMAIN ctx.index_to_iname_and_length
    /\ \E k \in 1..Len(ir) :
        /\ exprs_and_free_inames[k].free_indices = <<Iname(IdxJ), Iname(IdxI)>>
        /\ \E q \in InsnsOfPair(k) :
            knl.instructions[q].forced_iname_deps = {Iname(IdxI), Iname(IdxJ)}

(* C9 as stated: after the pre-pass the use-count of every node equals     *)
(* the number of parent edges that reference it, a top-level right-hand    *)
(* side counting as one edge.                                              *)
C9_UseCountIsParentEdges ==
    Counted => \A n \in Nodes : use_count(ctx.expr_use_count, n) = ParentEdges(n)

(* C9 as amended: after the pre-pass the use-count of every node equals    *)
(* the number of child-edge paths from the top-level right-hand sides to   *)
(* it, and a node no path reaches has no entry.                            *)
C9_UseCountIsPathCount ==
    Counted =>
        /\ \A n \in Nodes : use_count(ctx.expr_use_count, n) = PathCount(n)
        /\ DOMAIN ctx.expr_use_count = {n \in Nodes : PathCount(n) > 0}

C9_Witness ==
    /\ Counted
    /\ \E n \in Nodes :
        /\ ParentEdges(n) = 1
        /\ use_count(ctx.expr_use_count, n) = 2

CseReads(t) == ReadNames(t) \cap knl.cse_temps

=============================================================================
